---- MODULE Spec2Model ----
(***************************************************************************)
(* A model of the chunking + vector indexing + similarity-search pipeline  *)
(* of search_utils.py (DocumentProcessor, EmbeddingManager,                *)
(* AdvancedRAGPipeline) and of the text-file chunker of rag_text_utils.py. *)
(*                                                                         *)
(* A text is a sequence of pieces: a piece is either the whitespace piece  *)
(* " " or a non-empty string holding no whitespace.  The text a sequence   *)
(* stands for is the concatenation of its pieces (Str).                    *)
(***************************************************************************)
EXTENDS Integers, Sequences, FiniteSets, TLC

VARIABLES
    arg,      \* chunker harness: the arguments of the chunker call
    ret,      \* chunker harness: what the call produced
    chroma,   \* the installed chromadb release line: "0.3" or "0.4"
    store,    \* the Chroma collection: the set of stored chunk records
    now,      \* the wall clock datetime.now() reads
    last      \* the last pipeline call: its name, arguments, outcome and the
              \* calls it made to the embedding model and to the collection

vars == <<arg, ret, chroma, store, now, last>>

(***************************************************************************)
(* Bounds of the model.                                                    *)
(***************************************************************************)
MaxTextLen == 6     \* pieces in a text handed to the chunker harness
MaxChunkSize == 3   \* chunk_size values tried by the chunker harness
MaxOverlap == 3     \* overlap values tried by the chunker harness
MaxClock == 2       \* add_document calls in one run (each reads the clock once)
MaxBatch == 2       \* documents in one add_documents_batch call, and batch_size
MaxK == 2           \* n_results values tried by search

Min(a, b) == IF a <= b THEN a ELSE b

(***************************************************************************)
(* Python built-ins used by the chunkers.                                  *)
(***************************************************************************)
Whitespace == {" "}

\* str.split(): the maximal runs of non-whitespace, in order.  A run starts at
\* a non-whitespace piece that is first or follows whitespace, and goes on to
\* the last piece before the next whitespace or the end.
WordStarts(text) ==
    {i \in DOMAIN text : text[i] \notin Whitespace
                            /\ (i = 1 \/ text[i - 1] \in Whitespace)}

WordEnd(text, i) ==
    CHOOSE j \in i..Len(text) :
        /\ \A k \in i..j : text[k] \notin Whitespace
        /\ (j = Len(text) \/ text[j + 1] \in Whitespace)

RECURSIVE Concat(_, _, _)
Concat(text, i, j) == IF i > j THEN "" ELSE text[i] \o Concat(text, i + 1, j)

split(text) ==
    LET starts == WordStarts(text)
    IN [n \in 1..Cardinality(starts) |->
           LET i == CHOOSE s \in starts : Cardinality({t \in starts : t <= s}) = n
           IN Concat(text, i, WordEnd(text, i))]

\* ' '.join(words): the words with one whitespace piece between neighbours.
join(words) ==
    [k \in 1..(2 * Len(words) - 1) |->
        IF k % 2 = 1 THEN words[(k + 1) \div 2] ELSE " "]

\* str.strip(): the text without its leading and trailing whitespace.
RECURSIVE lstrip(_)
lstrip(text) ==
    IF text # <<>> /\ text[1] \in Whitespace THEN lstrip(Tail(text)) ELSE text

RECURSIVE rstrip(_)
rstrip(text) ==
    IF text # <<>> /\ text[Len(text)] \in Whitespace
    THEN rstrip(SubSeq(text, 1, Len(text) - 1))
    ELSE text

strip(text) == rstrip(lstrip(text))

\* The characters of a text as one string.
RECURSIVE Str(_)
Str(text) == IF text = <<>> THEN "" ELSE text[1] \o Str(Tail(text))

\* words[i:j] for 0 <= i: Python's slice, clamped at the end of the list.
Slice(words, i, j) == SubSeq(words, i + 1, Min(j, Len(words)))

\* range(start, stop, step) for start <= stop: empty when step is negative.
\* A step of zero is a ValueError, raised by the caller below.
RangeFrom(i, stop, step) ==
    [k \in 1..((stop - i + step - 1) \div step) |-> i + (k - 1) * step]

range(start, stop, step) ==
    IF step > 0 THEN RangeFrom(start, stop, step) ELSE <<>>

Returned(chunks) == [err |-> "none", chunks |-> chunks]
Raised(e) == [err |-> e, chunks |-> <<>>]

(***************************************************************************)
(* DocumentProcessor (search_utils.py).                                    *)
(***************************************************************************)
DefaultOverlap == 50

\* clean_text: strip, then collapse every whitespace run to one space.
clean_text(text) == join(split(strip(text)))

\* The loop of chunk_text over the start positions `starts`: the windows, in
\* order, without those that strip() leaves empty.
NotBlank(chunk) == strip(chunk) # <<>>

ChunkLoop(words, starts, chunk_size, chunks) ==
    chunks \o SelectSeq([k \in DOMAIN starts |->
                            join(Slice(words, starts[k], starts[k] + chunk_size))],
                        NotBlank)

\* A faulty variant of chunk_text: the window advances by chunk_size, the overlap is lost.
chunk_text_NoOverlap(text, chunk_size, overlap) ==
    LET words == split(text)
    IN IF chunk_size - overlap = 0 THEN Raised("ValueError")
       ELSE Returned(ChunkLoop(words,
                               range(0, Len(words),
                                     IF chunk_size - overlap > 0 THEN chunk_size ELSE -1),
                               chunk_size, <<>>))

chunk_text(text, chunk_size, overlap) ==
    LET words == split(text)
    IN IF chunk_size - overlap = 0 THEN Raised("ValueError")
       ELSE Returned(ChunkLoop(words, range(0, Len(words), chunk_size - overlap),
                               chunk_size, <<>>))

\* A faulty variant of process_document: the overlap handed on is 0.
process_document_NoOverlap(content, chunk_size) ==
    chunk_text(clean_text(content), chunk_size, 0)

\* process_document: clean, then chunk with the default overlap.
process_document(content, chunk_size) ==
    chunk_text(clean_text(content), chunk_size, DefaultOverlap)

(***************************************************************************)
(* process_text_file_for_rag (rag_text_utils.py).  An unreadable file and  *)
(* a zero stride both end in the except branch, which returns a list       *)
(* holding one error message.                                              *)
(***************************************************************************)
ErrorMessage == <<"[error]">>

RECURSIVE FileChunkLoop(_, _, _, _)
FileChunkLoop(words, starts, chunk_size, chunks) ==
    IF starts = <<>> THEN chunks
    ELSE LET i == Head(starts)
             chunk == join(Slice(words, i, i + chunk_size))
         IN FileChunkLoop(words, Tail(starts), chunk_size,
                          IF chunk # <<>> THEN Append(chunks, chunk) ELSE chunks)

\* A faulty variant of process_text_file_for_rag: without the try/except.
process_text_file_for_rag_Raising(readable, text, chunk_size, overlap) ==
    IF ~readable THEN Raised("OSError")
    ELSE IF chunk_size - overlap = 0 THEN Raised("ValueError")
    ELSE LET words == split(text)
         IN Returned(FileChunkLoop(words, range(0, Len(words), chunk_size - overlap),
                                   chunk_size, <<>>))

process_text_file_for_rag(readable, text, chunk_size, overlap) ==
    IF ~readable \/ chunk_size - overlap = 0
    THEN Returned(<<ErrorMessage>>)
    ELSE LET words == split(text)
         IN Returned(FileChunkLoop(words, range(0, Len(words), chunk_size - overlap),
                                   chunk_size, <<>>))

(***************************************************************************)
(* The chunker harness: Init draws a text, a chunk_size and an overlap;    *)
(* the actions apply one of the two chunkers to them.                      *)
(***************************************************************************)
Pieces == {"a", "b", " "}

RECURSIVE TextsOfLen(_)
TextsOfLen(n) ==
    IF n = 0 THEN {<<>>}
    ELSE {Append(t, p) : t \in TextsOfLen(n - 1), p \in Pieces}

Texts == UNION {TextsOfLen(n) : n \in 0..MaxTextLen}

NoCall == [fn |-> "none", err |-> "none", chunks |-> <<>>]

PipelineIdle ==
    /\ chroma = "0.4"
    /\ store = {}
    /\ now = 0
    /\ last = [op |-> "none"]

InitChunk ==
    /\ arg \in [text : Texts, chunk_size : 1..MaxChunkSize,
                overlap : 0..MaxOverlap, readable : BOOLEAN]
    /\ ret = NoCall
    /\ PipelineIdle

ChunkText ==
    /\ ret.fn = "none"
    /\ arg.readable
    /\ ret' = [fn |-> "chunk_text"] @@ chunk_text(arg.text, arg.chunk_size, arg.overlap)
    /\ UNCHANGED <<arg, chroma, store, now, last>>

ProcessTextFile ==
    /\ ret.fn = "none"
    /\ ret' = [fn |-> "process_text_file_for_rag"]
                @@ process_text_file_for_rag(arg.readable, arg.text,
                                             arg.chunk_size, arg.overlap)
    /\ UNCHANGED <<arg, chroma, store, now, last>>

NextChunk == ChunkText \/ ProcessTextFile

SpecChunk == InitChunk /\ [][NextChunk]_vars

(***************************************************************************)
(* process_document on long texts: Init draws a text of numbered words and *)
(* a chunk_size above the default overlap.                                 *)
(***************************************************************************)
MaxWords == 56
MaxStride == 3

\* The text "1 2 ... n".
NumberedText(n) ==
    [k \in 1..(2 * n - 1) |-> IF k % 2 = 1 THEN ToString((k + 1) \div 2) ELSE " "]

InitLong ==
    /\ arg \in [text : {NumberedText(n) : n \in 0..MaxWords},
                chunk_size : (DefaultOverlap + 1)..(DefaultOverlap + MaxStride),
                overlap : {DefaultOverlap}, readable : {TRUE}]
    /\ ret = NoCall
    /\ PipelineIdle

ProcessDocument ==
    /\ ret.fn = "none"
    /\ ret' = [fn |-> "process_document"] @@ process_document(arg.text, arg.chunk_size)
    /\ UNCHANGED <<arg, chroma, store, now, last>>

SpecLong == InitLong /\ [][ProcessDocument]_vars

(***************************************************************************)
(* get_prompt_parts (rag_prompt_utils.py).  A string is a sequence of      *)
(* pieces; a placeholder is one piece, a character of the context is one   *)
(* piece.  The template is the one the function found (two prompt files    *)
(* joined, or prompt.txt), or None when it found none.  The markers stand  *)
(* for the function's messages, which are in Russian.                      *)
(***************************************************************************)
ContextLimit == 4096
ContextLimitWithFile == 1024

NoTemplate == <<"<None>">>
NoUploadFile == [given |-> FALSE]

FileNotFound(name) == <<"[file not found: ", name, "]">>
FileNotPassed == <<"[file not passed]">>
FileError == <<"[file error]">>

\* str.replace(old, new) with old one piece: occurrence by occurrence, left to right.
RECURSIVE replace(_, _, _)
replace(text, old, new) ==
    LET at == {i \in DOMAIN text : text[i] = old}
    IN IF at = {} THEN text
       ELSE LET first == CHOOSE i \in at : \A j \in at : i <= j
            IN SubSeq(text, 1, first - 1) \o new
                   \o replace(SubSeq(text, first + 1, Len(text)), old, new)

\* get_prompt_parts from the point where the template is known.  uploadfile is
\* NoUploadFile or a path: its name, whether it exists, whether looking at it raises.
get_prompt_parts(template, topic, context, uploadfile) ==
    IF template = NoTemplate
    THEN [prompt |-> topic \o <<"\n\n">> \o context, context |-> context,
          has_uploadfile |-> FALSE, uploadfile_text |-> <<>>]
    ELSE LET has_uploadfile == \E i \in DOMAIN template : template[i] = "{UPLOADFILE}"
             found == has_uploadfile /\ uploadfile.given
                          /\ ~uploadfile.raises /\ uploadfile.exists
             uploadfile_text ==
                 IF ~has_uploadfile THEN <<>>
                 ELSE IF ~uploadfile.given THEN FileNotPassed
                 ELSE IF uploadfile.raises THEN FileError
                 ELSE IF uploadfile.exists THEN <<uploadfile.name>>
                 ELSE FileNotFound(uploadfile.name)
             cut == IF found THEN SubSeq(context, 1, Min(ContextLimitWithFile, Len(context)))
                    ELSE IF ~has_uploadfile
                         THEN SubSeq(context, 1, Min(ContextLimit, Len(context)))
                    ELSE context
             prompt_out == replace(replace(template, "{TOPIC}", topic), "{CONTEXT}", cut)
         IN [prompt |-> IF has_uploadfile
                        THEN replace(prompt_out, "{UPLOADFILE}", uploadfile_text)
                        ELSE prompt_out,
             context |-> cut, has_uploadfile |-> has_uploadfile,
             uploadfile_text |-> uploadfile_text]

Templates ==
    {NoTemplate, <<"plain">>, <<"{TOPIC}", ": ", "{CONTEXT}">>,
     <<"{TOPIC}", "{CONTEXT}", " ", "{UPLOADFILE}">>,
     <<"{UPLOADFILE}", "{CONTEXT}", "{CONTEXT}">>}

ContextOfLen(n) == [i \in 1..n |-> "c"]
ContextLengths ==
    {0, ContextLimitWithFile - 1, ContextLimitWithFile, ContextLimitWithFile + 1,
     ContextLimit, ContextLimit + 1}

UploadFiles ==
    {NoUploadFile}
        \cup [given : {TRUE}, name : {"f.pdf"}, exists : BOOLEAN, raises : BOOLEAN]

InitPrompt ==
    /\ arg \in [template : Templates, topic : {<<"t">>},
                context : {ContextOfLen(n) : n \in ContextLengths},
                uploadfile : UploadFiles]
    /\ ret = NoCall
    /\ PipelineIdle

GetPromptParts ==
    /\ ret.fn = "none"
    /\ ret' = [fn |-> "get_prompt_parts", err |-> "none"]
                @@ get_prompt_parts(arg.template, arg.topic, arg.context, arg.uploadfile)
    /\ UNCHANGED <<arg, chroma, store, now, last>>

SpecPrompt == InitPrompt /\ [][GetPromptParts]_vars

(***************************************************************************)
(* DataIngestionManager.load_from_urls_async (RAG_Pipeline_Extensions_     *)
(* Utils.py): one fetch_url task per URL, run concurrently; the tasks      *)
(* complete in any order, asyncio.gather waits for all of them.            *)
(***************************************************************************)
MaxUrls == 3

Urls == {"u1", "u2"}
Pending == [status |-> "pending"]
NotReturned == <<[status |-> "pending"]>>

\* hashlib.md5(url.encode()).hexdigest(), as an opaque digest of the url.
Md5(url) == "md5:" \o url

\* What fetch_url returns: the page's text (possibly empty), or the record of
\* the except branch.
FetchResults(url) ==
    {[id |-> Md5(url), content |-> content,
      metadata |-> [source_url |-> url, status |-> "success"]] : content \in {"page", ""}}
        \cup {[id |-> Md5(url), content |-> "",
               metadata |-> [source_url |-> url, status |-> "error", error |-> "e"]]}

\* A faulty variant of gather: the results come in the order of completion.
gather_AsCompleted(tasks, order) == [k \in DOMAIN order |-> tasks[order[k]]]

\* asyncio.gather(*tasks): the results in the order of the tasks.
gather(tasks, order) == tasks

\* [r for r in results if r['content']]
HasContent(r) == r.content # ""

InitUrls ==
    /\ arg \in UNION {[1..n -> Urls] : n \in 0..MaxUrls}
    /\ ret = NoCall
    /\ PipelineIdle

\* The call creates a task for every url.
LoadFromUrlsAsync ==
    /\ ret.fn = "none"
    /\ ret' = [fn |-> "load_from_urls_async", err |-> "none",
               tasks |-> [i \in DOMAIN arg |-> Pending], order |-> <<>>,
               returned |-> NotReturned]
    /\ UNCHANGED <<arg, chroma, store, now, last>>

\* One task completes.
FetchUrl ==
    /\ ret.fn = "load_from_urls_async"
    /\ \E i \in DOMAIN arg : \E r \in FetchResults(arg[i]) :
          /\ ret.tasks[i] = Pending
          /\ ret' = [ret EXCEPT !.tasks[i] = r, !.order = Append(@, i)]
    /\ UNCHANGED <<arg, chroma, store, now, last>>

\* All tasks are complete: gather gives their results and the call returns.
Gather ==
    /\ ret.fn = "load_from_urls_async"
    /\ ret.returned = NotReturned
    /\ \A i \in DOMAIN arg : ret.tasks[i] # Pending
    /\ ret' = [ret EXCEPT !.returned = SelectSeq(gather(ret.tasks, ret.order), HasContent)]
    /\ UNCHANGED <<arg, chroma, store, now, last>>

NextUrls == LoadFromUrlsAsync \/ FetchUrl \/ Gather

SpecUrls == InitUrls /\ [][NextUrls]_vars

(***************************************************************************)
(* The embedding model and the Chroma collection, as the pipeline uses     *)
(* them.  Both are external: the model is a fixed deterministic function   *)
(* from a text to a vector of EmbeddingDim numbers, the collection keeps   *)
(* records {id, document, embedding, metadata} under unique ids.           *)
(***************************************************************************)
\* Python's None, as a value that compares with a dict.
None == [NoneType |-> TRUE]
EmptyDict == [k \in {} |-> 0]

Range(f) == {f[k] : k \in DOMAIN f}

RECURSIVE CountIn(_, _)
CountIn(words, vocab) ==
    IF words = <<>> THEN 0
    ELSE (IF Head(words) \in vocab THEN 1 ELSE 0) + CountIn(Tail(words), vocab)

\* SentenceTransformer.encode on one text.
Embed(text) ==
    LET words == split(text)
        n == CountIn(words, {"a", "alpha"})
    IN <<n, Len(words) - n>>

\* EmbeddingManager.encode: one vector per text, in order.
encode(texts) == [k \in DOMAIN texts |-> Embed(texts[k])]

\* The collection's distance: squared L2, Chroma's default space.
Distance(u, v) ==
    (u[1] - v[1]) * (u[1] - v[1]) + (u[2] - v[2]) * (u[2] - v[2])

Ids(st) == {r.id : r \in st}

\* collection.add(ids, documents, embeddings, metadatas).  The collection may
\* refuse any call (fault "store": the store is unavailable, or it rejects the
\* batch, as some releases do with an empty one).  An id already in the
\* collection makes release 0.3 refuse the whole batch (IDAlreadyExistsError)
\* and release 0.4 skip that record and insert the others.
collection_add(st, batch, fault) ==
    IF fault = "store" THEN [store |-> st, err |-> "StoreUnavailable"]
    ELSE IF \E k \in DOMAIN batch : batch[k].id \in Ids(st)
    THEN IF chroma = "0.3"
         THEN [store |-> st, err |-> "IDAlreadyExistsError"]
         ELSE [store |-> st \cup {r \in Range(batch) : r.id \notin Ids(st)},
               err |-> "none"]
    ELSE [store |-> st \cup Range(batch), err |-> "none"]

\* A where clause matches a record when every key of it is in the record's
\* metadata with the same value.
Matches(metadata, where) ==
    where = None \/
        \A key \in DOMAIN where :
            key \in DOMAIN metadata /\ metadata[key] = where[key]

\* collection.get(where=...)
collection_get(st, where) == {r \in st : Matches(r.metadata, where)}

Hit(r, qemb) ==
    [id |-> r.id, document |-> r.document, metadata |-> r.metadata,
     distance |-> Distance(qemb, r.embedding)]

\* The nearest-first sequences of m records of `cands`; records at the same
\* distance come in any order.
RECURSIVE NearestFirst(_, _, _)
NearestFirst(cands, qemb, m) ==
    IF m = 0 \/ cands = {} THEN {<<>>}
    ELSE LET nearest == {r \in cands : \A o \in cands :
                            Distance(qemb, r.embedding) <= Distance(qemb, o.embedding)}
         IN UNION {{<<Hit(r, qemb)>> \o h : h \in NearestFirst(cands \ {r}, qemb, m - 1)}
                   : r \in nearest}

\* collection.query(query_embeddings, n_results, where): the possible answers.
\* Release 0.3 raises NotEnoughElementsException when n_results exceeds the
\* number of stored records; release 0.4 answers with what there is.
collection_query(st, qemb, n_results, where) ==
    IF chroma = "0.3" /\ n_results > Cardinality(st)
    THEN {[err |-> "NotEnoughElementsException", hits |-> <<>>]}
    ELSE {[err |-> "none", hits |-> h] :
             h \in NearestFirst(collection_get(st, where), qemb, n_results)}

(***************************************************************************)
(* AdvancedRAGPipeline (search_utils.py).                                  *)
(***************************************************************************)
\* f"{doc_id}_chunk_{i}"
ChunkId(doc_id, i) == doc_id \o "_chunk_" \o ToString(i)

\* A faulty variant of ChunkMeta: the caller's keys win over the lineage keys.
ChunkMeta_CallerWins(metadata, doc_id, i, count, ts) ==
    metadata @@ [parent_doc_id |-> doc_id, chunk_index |-> i, chunk_count |-> count,
                 timestamp |-> ts]

\* {**metadata, "parent_doc_id": ..., ...}: the lineage keys win.
ChunkMeta(metadata, doc_id, i, count, ts) ==
    [parent_doc_id |-> doc_id, chunk_index |-> i, chunk_count |-> count,
     timestamp |-> ts] @@ metadata

\* A faulty variant of BuildBatch: the chunk numbering starts at 1 (enumerate(..., 1)).
BuildBatch_FromOne(chunks, embeddings, doc_id, metadata, ts) ==
    [k \in 1..Min(Len(chunks), Len(embeddings)) |->
        [id |-> ChunkId(doc_id, k),
         document |-> chunks[k],
         embedding |-> embeddings[k],
         metadata |-> ChunkMeta(metadata, doc_id, k, Len(chunks), ts)]]

\* A faulty variant of BuildBatch: the embeddings are paired in reverse order.
BuildBatch_Misaligned(chunks, embeddings, doc_id, metadata, ts) ==
    [k \in 1..Min(Len(chunks), Len(embeddings)) |->
        [id |-> ChunkId(doc_id, k - 1),
         document |-> chunks[k],
         embedding |-> embeddings[Len(embeddings) - k + 1],
         metadata |-> ChunkMeta(metadata, doc_id, k - 1, Len(chunks), ts)]]

\* The four parallel lists add_document builds, as one list of records.
BuildBatch(chunks, embeddings, doc_id, metadata, ts) ==
    [k \in 1..Min(Len(chunks), Len(embeddings)) |->
        [id |-> ChunkId(doc_id, k - 1),
         document |-> chunks[k],
         embedding |-> embeddings[k],
         metadata |-> ChunkMeta(metadata, doc_id, k - 1, Len(chunks), ts)]]

Outcome(st, err, returned, encodes, adds) ==
    [store |-> st, err |-> err, returned |-> returned,
     encodes |-> encodes, adds |-> adds]

\* add_document with doc_id given (the action below draws the uuid).
add_document(st, content, doc_id, metadata, chunk_size, ts, fault) ==
    LET md == IF metadata = None THEN EmptyDict ELSE metadata
        pd == process_document(content, chunk_size)
    IN IF pd.err # "none" THEN Outcome(st, pd.err, <<>>, <<>>, <<>>)
       ELSE IF fault = "embed"
       THEN Outcome(st, "ModelUnavailable", <<>>, <<pd.chunks>>, <<>>)
       ELSE LET embeddings == encode(pd.chunks)
                batch == BuildBatch(pd.chunks, embeddings, doc_id, md, ts)
                w == collection_add(st, batch, fault)
            IN Outcome(w.store, w.err,
                       IF w.err = "none" THEN [k \in DOMAIN batch |-> batch[k].id]
                                         ELSE <<>>,
                       <<pd.chunks>>, <<batch>>)

\* A faulty variant of delete_document: the whole collection is emptied.
delete_document_All(st, doc_id, fault) ==
    IF fault = "store" THEN [store |-> st, returned |-> FALSE]
    ELSE LET found == collection_get(st, [parent_doc_id |-> doc_id])
         IN IF found # {} THEN [store |-> {}, returned |-> TRUE]
                          ELSE [store |-> st, returned |-> FALSE]

\* A faulty variant of delete_document: only one of the chunks found is removed.
delete_document_OneChunk(st, doc_id, fault) ==
    IF fault = "store" THEN [store |-> st, returned |-> FALSE]
    ELSE LET found == collection_get(st, [parent_doc_id |-> doc_id])
         IN IF found # {} THEN [store |-> st \ {CHOOSE r \in found : TRUE},
                                returned |-> TRUE]
                          ELSE [store |-> st, returned |-> FALSE]

\* delete_document: every failure of the collection is caught and answered False.
delete_document(st, doc_id, fault) ==
    IF fault = "store" THEN [store |-> st, returned |-> FALSE]
    ELSE LET found == collection_get(st, [parent_doc_id |-> doc_id])
         IN IF found # {} THEN [store |-> st \ found, returned |-> TRUE]
                          ELSE [store |-> st, returned |-> FALSE]

\* A faulty variant of update_document: a failed add_document puts the old chunks back.
update_document_Restoring(st, doc_id, new_content, new_metadata, chunk_size, ts, delFault, fault) ==
    LET d == delete_document(st, doc_id, delFault)
        a == add_document(d.store, new_content, doc_id, new_metadata, chunk_size, ts, fault)
    IN [a EXCEPT !.store = IF a.err = "none" THEN a.store ELSE st]
           @@ [deleted |-> d.returned,
               between |-> Ids(collection_get(d.store, [parent_doc_id |-> doc_id]))]

\* update_document: delete_document, its answer dropped, then add_document.
\* `between` is what the collection holds of the document between the two calls.
update_document(st, doc_id, new_content, new_metadata, chunk_size, ts, delFault, fault) ==
    LET d == delete_document(st, doc_id, delFault)
    IN add_document(d.store, new_content, doc_id, new_metadata, chunk_size, ts, fault)
           @@ [deleted |-> d.returned,
               between |-> Ids(collection_get(d.store, [parent_doc_id |-> doc_id]))]

\* The inner loop of add_documents_batch over one group; the document at
\* position failAt of the whole list meets the fault.  acc is the state
\* so far: store, err, returned (batch_ids), encodes, adds, pos, ts.
RECURSIVE BatchInner(_, _, _, _, _)
BatchInner(acc, batch, chunk_size, failAt, fault) ==
    IF batch = <<>> \/ acc.err # "none" THEN acc
    ELSE LET doc == Head(batch)
             e == IF acc.pos = failAt THEN fault ELSE "none"
             r == add_document(acc.store, doc.content, doc.id, doc.metadata,
                               chunk_size, acc.ts, e)
         IN BatchInner([store |-> r.store, err |-> r.err,
                        returned |-> acc.returned \o r.returned,
                        encodes |-> acc.encodes \o r.encodes,
                        adds |-> acc.adds \o r.adds,
                        pos |-> acc.pos + 1, ts |-> acc.ts + 1],
                       Tail(batch), chunk_size, failAt, fault)

\* The outer loop of add_documents_batch over the group starts.
RECURSIVE BatchOuter(_, _, _, _, _, _, _)
BatchOuter(acc, documents, starts, chunk_size, batch_size, failAt, fault) ==
    IF starts = <<>> \/ acc.err # "none" THEN acc
    ELSE LET i == Head(starts)
             batch == Slice(documents, i, i + batch_size)
         IN BatchOuter(BatchInner(acc, batch, chunk_size, failAt, fault),
                       documents, Tail(starts), chunk_size, batch_size, failAt, fault)

\* A faulty variant of add_documents_batch: a failure takes back what the call wrote.
add_documents_batch_RollingBack(st, documents, chunk_size, batch_size, ts, failAt, fault) ==
    LET r == BatchOuter([store |-> st, err |-> "none", returned |-> <<>>,
                         encodes |-> <<>>, adds |-> <<>>, pos |-> 1, ts |-> ts],
                        documents, range(0, Len(documents), batch_size),
                        chunk_size, batch_size, failAt, fault)
    IN [r EXCEPT !.returned = IF r.err = "none" THEN r.returned ELSE <<>>,
                 !.store = IF r.err = "none" THEN r.store ELSE st]

\* add_documents_batch: an exception of add_document ends the call and the
\* chunk ids collected so far are lost with it.
add_documents_batch(st, documents, chunk_size, batch_size, ts, failAt, fault) ==
    LET r == BatchOuter([store |-> st, err |-> "none", returned |-> <<>>,
                         encodes |-> <<>>, adds |-> <<>>, pos |-> 1, ts |-> ts],
                        documents, range(0, Len(documents), batch_size),
                        chunk_size, batch_size, failAt, fault)
    IN [r EXCEPT !.returned = IF r.err = "none" THEN r.returned ELSE <<>>]

QueryResult(document_id, content, similarity_score, metadata) ==
    [document_id |-> document_id, content |-> content,
     similarity_score |-> similarity_score, metadata |-> metadata]

\* A faulty variant of SearchLoop: the min_similarity test is lost.
RECURSIVE SearchLoop_NoThreshold(_, _, _)
SearchLoop_NoThreshold(hits, min_similarity, query_results) ==
    IF hits = <<>> THEN query_results
    ELSE LET h == Head(hits)
         IN SearchLoop_NoThreshold(Tail(hits), min_similarity,
                Append(query_results,
                       QueryResult(h.id, h.document, 1 - h.distance, h.metadata)))

\* The result loop of search: similarity is 1 - distance, hits below
\* min_similarity are dropped.
RECURSIVE SearchLoop(_, _, _)
SearchLoop(hits, min_similarity, query_results) ==
    IF hits = <<>> THEN query_results
    ELSE LET h == Head(hits)
             similarity_score == 1 - h.distance
         IN SearchLoop(Tail(hits), min_similarity,
                       IF similarity_score >= min_similarity
                       THEN Append(query_results,
                                   QueryResult(h.id, h.document, similarity_score,
                                               h.metadata))
                       ELSE query_results)

\* A faulty variant of search: a failure is answered with an empty list.
search_Swallowing(answer, min_similarity) ==
    IF answer.err # "none" THEN [err |-> "none", returned |-> <<>>]
    ELSE [err |-> "none", returned |-> SearchLoop(answer.hits, min_similarity, <<>>)]

\* search, given the collection's answer `answer` to the query.
search(answer, min_similarity) ==
    IF answer.err # "none" THEN [err |-> answer.err, returned |-> <<>>]
    ELSE [err |-> "none", returned |-> SearchLoop(answer.hits, min_similarity, <<>>)]

\* filter_metadata if filter_metadata else None
WhereClause(filter_metadata) ==
    IF filter_metadata = None \/ DOMAIN filter_metadata = {} THEN None
    ELSE filter_metadata

\* What encode([query]) and collection.query give search: the model or the
\* collection may fail, otherwise the collection answers.
QueryAnswers(st, query, n_results, where, fault) ==
    IF fault = "embed" THEN {[err |-> "ModelUnavailable", hits |-> <<>>]}
    ELSE IF fault = "store" THEN {[err |-> "StoreUnavailable", hits |-> <<>>]}
    ELSE collection_query(st, Embed(query), n_results, where)

\* EmbeddingManager.compute_similarity: the cosine of two vectors.  The vectors
\* have no negative component, so the cosine is kept exactly as its square, the
\* fraction num / den; a zero vector gives 0, as sklearn's normalisation does.
compute_similarity(u, v) ==
    LET dot == u[1] * v[1] + u[2] * v[2]
        norms == (u[1] * u[1] + u[2] * u[2]) * (v[1] * v[1] + v[2] * v[2])
    IN IF norms = 0 THEN [num |-> 0, den |-> 1]
       ELSE [num |-> dot * dot, den |-> norms]

\* x < y and x = y on similarities computed by compute_similarity.
SimLess(x, y) == x.num * y.den < y.num * x.den
SimEqual(x, y) == x.num * y.den = y.num * x.den

\* list.sort(key=similarity_score, reverse=True) is stable: x goes behind every
\* element that is not smaller than it.
RECURSIVE InsertDescending(_, _)
InsertDescending(sorted, x) ==
    IF sorted = <<>> THEN <<x>>
    ELSE IF SimLess(Head(sorted).similarity_score, x.similarity_score)
         THEN <<x>> \o sorted
         ELSE <<Head(sorted)>> \o InsertDescending(Tail(sorted), x)

RECURSIVE SortDescending(_, _)
SortDescending(results, sorted) ==
    IF results = <<>> THEN sorted
    ELSE SortDescending(Tail(results), InsertDescending(sorted, Head(results)))

\* The rescoring loop of semantic_search_with_reranking.
Rescore(query, initial_results) ==
    [i \in DOMAIN initial_results |->
        [initial_results[i] EXCEPT !.similarity_score =
            compute_similarity(Embed(query), Embed(initial_results[i].content))]]

\* A faulty variant of semantic_search_with_reranking: the cut at rerank_top_k is lost.
semantic_search_with_reranking_NoCut(query, answer, rerank_top_k, fault) ==
    LET initial == search(answer, 0)
    IN IF initial.err # "none"
       THEN [err |-> initial.err, returned |-> <<>>, encodes |-> <<query>>]
       ELSE IF initial.returned = <<>>
       THEN [err |-> "none", returned |-> <<>>, encodes |-> <<query>>]
       ELSE IF fault = "reembed"
       THEN [err |-> "ModelUnavailable", returned |-> <<>>, encodes |-> <<query, query>>]
       ELSE [err |-> "none",
             returned |-> SortDescending(Rescore(query, initial.returned), <<>>),
             encodes |-> <<query, query>>
                           \o [i \in DOMAIN initial.returned |-> initial.returned[i].content]]

\* semantic_search_with_reranking, given the collection's answer to the first
\* search; fault "reembed" is a failure of the model in the rescoring.  `encodes`
\* are the texts handed to the model, call by call.
semantic_search_with_reranking(query, answer, rerank_top_k, fault) ==
    LET initial == search(answer, 0)
    IN IF initial.err # "none"
       THEN [err |-> initial.err, returned |-> <<>>, encodes |-> <<query>>]
       ELSE IF initial.returned = <<>>
       THEN [err |-> "none", returned |-> <<>>, encodes |-> <<query>>]
       ELSE IF fault = "reembed"
       THEN [err |-> "ModelUnavailable", returned |-> <<>>, encodes |-> <<query, query>>]
       ELSE [err |-> "none",
             returned |-> Slice(SortDescending(Rescore(query, initial.returned), <<>>),
                                0, rerank_top_k),
             encodes |-> <<query, query>>
                           \o [i \in DOMAIN initial.returned |-> initial.returned[i].content]]

(***************************************************************************)
(* The pipeline as a state machine: one action per public method.          *)
(***************************************************************************)
AlphaText == <<"alpha", " ", "beta", " ", "gamma", " ", "delta">>
MessyText == <<" ", "a", " ", " ", "b", " ">>
BlankText == <<" ">>

DocIds == {"d1", "d2"}
Contents == {BlankText, MessyText, AlphaText}
\* A caller's metadata with a key of its own and keys named like the lineage keys.
CollidingMetadata ==
    [cat |-> "x", parent_doc_id |-> "d9", chunk_index |-> 9, chunk_count |-> 9,
     timestamp |-> 9]
Metadatas == {None, CollidingMetadata}
ChunkSizes == {2, DefaultOverlap, DefaultOverlap + 1, DefaultOverlap + 2}
Faults == {"none", "embed", "store"}
Queries == {<<"alpha", " ", "beta">>}
Filters == {None, [cat |-> "x"]}
MinSimilarities == {0, 1}

Document(id, content, metadata) ==
    [id |-> id, content |-> content,
     metadata |-> IF metadata = None THEN EmptyDict ELSE metadata]

\* The documents handed to add_documents_batch.
BatchDocuments ==
    {Document("d1", MessyText, None), Document("d1", BlankText, None),
     Document("d2", AlphaText, [cat |-> "x"])}

RECURSIVE ListsOfLen(_, _)
ListsOfLen(S, n) ==
    IF n = 0 THEN {<<>>}
    ELSE {Append(l, x) : l \in ListsOfLen(S, n - 1), x \in S}

\* What a call leaves for the caller to see: its outcome without the collection.
Seen(r) == [k \in DOMAIN r \ {"store"} |-> r[k]]

Init ==
    /\ arg = [text |-> <<>>, chunk_size |-> 1, overlap |-> 0, readable |-> TRUE]
    /\ ret = NoCall
    /\ chroma \in {"0.3", "0.4"}
    /\ store = {}
    /\ now = 0
    /\ last = [op |-> "none"]

\* The pipeline is synchronous: a call is made when the one before it has
\* returned and its outcome has been taken by the caller.
Idle == last.op = "none"

AddDocument ==
    \E content \in Contents, doc_id \in DocIds, metadata \in Metadatas,
       chunk_size \in ChunkSizes, fault \in Faults :
        /\ Idle
        /\ now < MaxClock
        /\ LET r == add_document(store, content, doc_id, metadata, chunk_size, now, fault)
           IN /\ store' = r.store
              /\ last' = [op |-> "add_document", doc_id |-> doc_id, content |-> content,
                          metadata |-> metadata, chunk_size |-> chunk_size,
                          ts |-> now, fault |-> fault] @@ Seen(r)
        /\ now' = now + 1
        /\ UNCHANGED <<arg, ret, chroma>>

AddDocumentsBatch ==
    \E n \in 0..MaxBatch, chunk_size \in ChunkSizes, batch_size \in 1..MaxBatch :
        /\ Idle
        /\ now + n <= MaxClock
        /\ \E documents \in ListsOfLen(BatchDocuments, n),
              failure \in {[at |-> 0, fault |-> "none"]}
                            \cup [at : 1..n, fault : {"embed", "store"}] :
             LET r == add_documents_batch(store, documents, chunk_size, batch_size,
                                          now, failure.at, failure.fault)
             IN /\ store' = r.store
                /\ last' = [op |-> "add_documents_batch", documents |-> documents,
                            chunk_size |-> chunk_size, batch_size |-> batch_size,
                            failure |-> failure]
                               @@ Seen([r EXCEPT !.ts = now])
                /\ now' = r.ts
        /\ UNCHANGED <<arg, ret, chroma>>

DeleteDocument ==
    \E doc_id \in DocIds, fault \in {"none", "store"} :
        /\ Idle
        /\ LET r == delete_document(store, doc_id, fault)
           IN /\ store' = r.store
              /\ last' = [op |-> "delete_document", doc_id |-> doc_id,
                          err |-> "none", fault |-> fault] @@ Seen(r)
        /\ UNCHANGED <<arg, ret, chroma, now>>

UpdateDocument ==
    \E new_content \in Contents, doc_id \in DocIds, new_metadata \in Metadatas,
       chunk_size \in ChunkSizes, delFault \in {"none", "store"}, fault \in Faults :
        /\ Idle
        /\ now < MaxClock
        /\ delFault = "none" \/ fault = "none"
        /\ LET r == update_document(store, doc_id, new_content, new_metadata,
                                    chunk_size, now, delFault, fault)
           IN /\ store' = r.store
              /\ last' = [op |-> "update_document", doc_id |-> doc_id,
                          content |-> new_content, metadata |-> new_metadata,
                          chunk_size |-> chunk_size, ts |-> now,
                          delFault |-> delFault, fault |-> fault] @@ Seen(r)
        /\ now' = now + 1
        /\ UNCHANGED <<arg, ret, chroma>>

Search ==
    \E query \in Queries, n_results \in 1..MaxK, filter_metadata \in Filters,
       min_similarity \in MinSimilarities, fault \in Faults :
        /\ Idle
        /\ \E answer \in QueryAnswers(store, query, n_results,
                                      WhereClause(filter_metadata), fault) :
               last' = [op |-> "search", query |-> query, n_results |-> n_results,
                        filter_metadata |-> filter_metadata,
                        min_similarity |-> min_similarity, fault |-> fault,
                        hits |-> answer.hits]
                           @@ search(answer, min_similarity)
        /\ UNCHANGED <<arg, ret, chroma, store, now>>

SemanticSearchWithReranking ==
    \E query \in Queries, n_results \in 1..MaxK, rerank_top_k \in 1..MaxK,
       fault \in Faults \cup {"reembed"} :
        /\ Idle
        /\ \E answer \in QueryAnswers(store, query, n_results, None, fault) :
               last' = [op |-> "semantic_search_with_reranking", query |-> query,
                        n_results |-> n_results, rerank_top_k |-> rerank_top_k,
                        fault |-> fault, hits |-> answer.hits]
                           @@ semantic_search_with_reranking(query, answer,
                                                             rerank_top_k, fault)
        /\ UNCHANGED <<arg, ret, chroma, store, now>>

\* The caller takes the outcome of the call; the collection and the clock stay.
Return ==
    /\ ~Idle
    /\ last' = [op |-> "none"]
    /\ UNCHANGED <<arg, ret, chroma, store, now>>

Next ==
    \/ AddDocument
    \/ AddDocumentsBatch
    \/ DeleteDocument
    \/ UpdateDocument
    \/ Search
    \/ SemanticSearchWithReranking
    \/ Return

Spec == Init /\ [][Next]_vars

(***************************************************************************)
(* Properties of the chunkers, checked under SpecChunk.                    *)
(***************************************************************************)
Called == ret.fn # "none"
ValidParams == 0 <= arg.overlap /\ arg.overlap < arg.chunk_size
Stride == arg.chunk_size - arg.overlap
ArgWords == split(arg.text)

\* The windows the sliding-window description names: one per start position
\* 0, s, 2s, ... below the word count, each the words [i, i + chunk_size).
NumStarts == (Len(ArgWords) + Stride - 1) \div Stride
Window(j) ==
    join(SubSeq(ArgWords, (j - 1) * Stride + 1,
                Min((j - 1) * Stride + arg.chunk_size, Len(ArgWords))))
Windows == [j \in 1..NumStarts |-> Window(j)]

\* C2: with 0 <= overlap < chunk_size the chunker returns, in order, exactly the
\* windows of chunk_size words taken every chunk_size - overlap words, the final
\* partial window included, each joined by single spaces.
C2_SlidingWindows ==
    (Called /\ arg.readable /\ ValidParams) =>
        /\ ret.err = "none"
        /\ ret.chunks = Windows

\* C2 witness: a call that returned several windows, the last one partial.
C2_Witness ==
    /\ ret.fn = "chunk_text" /\ ValidParams /\ arg.overlap > 0
    /\ Len(ret.chunks) >= 2
    /\ Len(split(ret.chunks[Len(ret.chunks)])) < arg.chunk_size
    /\ Len(split(ret.chunks[1])) = arg.chunk_size

\* The first chunk in full, then every later chunk without its first `overlap`
\* words, concatenated.
RECURSIVE DeOverlap(_, _, _)
DeOverlap(chunks, overlap, first) ==
    IF chunks = <<>> THEN <<>>
    ELSE LET w == split(Head(chunks))
             kept == IF first THEN w ELSE SubSeq(w, overlap + 1, Len(w))
         IN kept \o DeOverlap(Tail(chunks), overlap, FALSE)

\* C3: with 0 <= overlap < chunk_size, concatenating the de-overlapped chunks
\* gives back exactly the words of the text, none dropped and none repeated.
C3_Reconstructs ==
    (ret.fn = "chunk_text" /\ ValidParams) =>
        DeOverlap(ret.chunks, arg.overlap, TRUE) = ArgWords

\* C3 witness: a text of three words or more chunked with a real overlap.
C3_Witness ==
    /\ ret.fn = "chunk_text" /\ ValidParams /\ arg.overlap > 0
    /\ Len(ArgWords) >= 3
    /\ Len(ret.chunks) >= 3

\* C4 (as claimed): with overlap >= chunk_size, chunk_text fails with an error for
\* every text and never returns a chunk list, empty or otherwise.
C4_ZeroStrideFails ==
    (ret.fn = "chunk_text" /\ arg.overlap >= arg.chunk_size) => ret.err # "none"

\* C5 (as claimed): a text without words gives no chunk; a text of at least one
\* and fewer than chunk_size words gives exactly one chunk, holding all its words.
C5_EmptyAndShort ==
    (ret.fn = "chunk_text" /\ ValidParams) =>
        /\ ArgWords = <<>> => ret.chunks = <<>>
        /\ (1 <= Len(ArgWords) /\ Len(ArgWords) < arg.chunk_size) =>
               /\ Len(ret.chunks) = 1
               /\ split(ret.chunks[1]) = ArgWords

\* C26: on a readable file and 0 <= overlap < chunk_size, process_text_file_for_rag
\* returns the chunk list chunk_text returns for the file's text and the same
\* parameters; on an unreadable file or a zero stride it raises nothing and
\* returns a list of one element, the error message.
C26_FileChunkerEquivalent ==
    ret.fn = "process_text_file_for_rag" =>
        /\ ret.err = "none"
        /\ (arg.readable /\ ValidParams) =>
               /\ chunk_text(arg.text, arg.chunk_size, arg.overlap).err = "none"
               /\ ret.chunks = chunk_text(arg.text, arg.chunk_size, arg.overlap).chunks
        /\ (~arg.readable \/ Stride = 0) => ret.chunks = <<ErrorMessage>>

\* C26 witness: a readable file of several words chunked with a zero stride.
C26_Witness ==
    /\ ret.fn = "process_text_file_for_rag"
    /\ arg.readable /\ Stride = 0 /\ Len(ArgWords) >= 2
    /\ ret.chunks = <<ErrorMessage>>

(***************************************************************************)
(* Properties of the pipeline, checked under Spec.                         *)
(***************************************************************************)
Ingested == last.op \in {"add_document", "update_document"}
Parent(r) == r.metadata.parent_doc_id
ChunksOf(st, doc_id) == collection_get(st, [parent_doc_id |-> doc_id])
StoredText(id) == Str((CHOOSE r \in store : r.id = id).document)

\* C1 (as claimed): ingesting id "d1" with content "alpha beta gamma delta" and
\* chunk_size 2 (overlap 0) returns ["d1_chunk_0", "d1_chunk_1"] and stores the
\* texts "alpha beta" and "gamma delta" under them.  add_document takes no
\* overlap: it chunks with the default overlap of 50 whatever the chunk_size.
C1_IngestScenarioA ==
    (/\ last.op = "add_document" /\ last.doc_id = "d1"
     /\ last.content = AlphaText /\ last.chunk_size = 2
     /\ last.fault = "none") =>
        /\ last.err = "none"
        /\ last.returned = <<"d1_chunk_0", "d1_chunk_1">>
        /\ {"d1_chunk_0", "d1_chunk_1"} \subseteq Ids(store)
        /\ StoredText("d1_chunk_0") = "alpha beta"
        /\ StoredText("d1_chunk_1") = "gamma delta"

\* C6 (as claimed): when the content gives no chunk, add_document returns the
\* empty list, raises nothing and makes no call of collection.add.
C6_EmptyContentNoWrite ==
    (/\ last.op = "add_document" /\ last.fault = "none"
     /\ process_document(last.content, last.chunk_size) = Returned(<<>>)) =>
        /\ last.returned = <<>>
        /\ last.err = "none"
        /\ last.adds = <<>>

\* The ids of a batch handed to collection.add, in order.
BatchIds(batch) == [k \in DOMAIN batch |-> batch[k].id]

\* C7: in every ingest call that returns, the chunk_count written into the
\* metadata of each chunk of the call is the number of ids returned, and the
\* i-th id returned is "<doc_id>_chunk_<i>", i = 0..n-1.
C7_ChunkCountAndIds ==
    (Ingested /\ last.err = "none") =>
        /\ Len(last.adds) = 1
        /\ LET batch == last.adds[1]
               n == Len(last.returned)
           IN /\ Len(batch) = n
              /\ \A k \in 1..n :
                    /\ last.returned[k] = ChunkId(last.doc_id, k - 1)
                    /\ batch[k].id = last.returned[k]
                    /\ batch[k].metadata.chunk_count = n
                    /\ batch[k].metadata.chunk_index = k - 1

\* C7 witness: an ingest call that returned several chunk ids.
C7_Witness ==
    /\ Ingested /\ last.err = "none"
    /\ Len(last.returned) >= 3
    /\ last.returned[3] \in Ids(store)

\* C8 (as claimed): every stored record's id is "<parent_doc_id>_chunk_<chunk_index>",
\* ids are unique, 0 <= chunk_index < chunk_count, and the records of one parent
\* carry one chunk_count and cover exactly the indices 0..chunk_count-1.
C8_StoreLineage ==
    /\ \A r \in store :
          /\ r.id = ChunkId(Parent(r), r.metadata.chunk_index)
          /\ 0 <= r.metadata.chunk_index
          /\ r.metadata.chunk_index < r.metadata.chunk_count
    /\ \A r1, r2 \in store : r1.id = r2.id => r1 = r2
    /\ \A r \in store :
          LET mine == ChunksOf(store, Parent(r))
          IN /\ \A o \in mine : o.metadata.chunk_count = r.metadata.chunk_count
             /\ {o.metadata.chunk_index : o \in mine} = 0..(r.metadata.chunk_count - 1)

\* C9 (as claimed): after an ingest of an id already in the store, the store never
\* holds chunks of two ingestions of that id: the chunks of one parent all come
\* from one call (they carry its timestamp).
C9_NeverBothIngestions ==
    last.op \in {"add_document", "add_documents_batch"} =>
        \A r1, r2 \in store :
            Parent(r1) = Parent(r2) => r1.metadata.timestamp = r2.metadata.timestamp

\* C10: a search that returns gives at most n_results results, each with a
\* similarity_score of 1 - the hit's distance that is at least min_similarity.
C10_AtMostKAboveThreshold ==
    (last.op = "search" /\ last.err = "none") =>
        /\ Len(last.returned) <= last.n_results
        /\ \A i \in DOMAIN last.returned :
              /\ last.returned[i].similarity_score >= last.min_similarity
              /\ \E j \in DOMAIN last.hits :
                    /\ last.hits[j].id = last.returned[i].document_id
                    /\ last.returned[i].similarity_score = 1 - last.hits[j].distance

\* C10 witness: a search whose threshold dropped one of two hits and kept the other.
C10_Witness ==
    /\ last.op = "search" /\ last.err = "none"
    /\ Len(last.hits) = 2
    /\ Len(last.returned) = 1
    /\ last.min_similarity = 1

\* The order of chunk ids as strings: by document id, then by chunk index (one
\* digit within the bounds).
DocIdOrder == <<"d1", "d2">>
MaxChunks == Len(split(AlphaText))
ChunkIdRank(id) ==
    CHOOSE n \in 1..(Len(DocIdOrder) * MaxChunks) :
        ChunkId(DocIdOrder[(n - 1) \div MaxChunks + 1], (n - 1) % MaxChunks) = id

\* C11 (as claimed): the results of a search come by descending similarity_score,
\* and results of equal score by ascending chunk id, whatever the order of the
\* collection's hits.  search keeps the collection's order and sorts nothing.
C11_OrderedWithTieBreak ==
    (last.op = "search" /\ last.err = "none") =>
        \A i, j \in DOMAIN last.returned :
            i < j =>
                \/ last.returned[i].similarity_score > last.returned[j].similarity_score
                \/ /\ last.returned[i].similarity_score = last.returned[j].similarity_score
                   /\ ChunkIdRank(last.returned[i].document_id)
                          < ChunkIdRank(last.returned[j].document_id)

Reranked == last.op = "semantic_search_with_reranking" /\ last.err = "none"

\* The candidates of a reranking: the hits of its first search that pass
\* min_similarity 0.
Candidates == SearchLoop(last.hits, 0, <<>>)

\* C12 (as claimed): reranking returns the first rerank_top_k of its candidates
\* ordered by the recomputed query-to-text similarity, descending, candidates of
\* equal recomputed similarity by ascending chunk id.  The sort has the score as
\* its only key and is stable: equal scores stay in the order of the first search.
C12_RerankOrder ==
    Reranked =>
        /\ Len(last.returned) = Min(last.rerank_top_k, Len(Candidates))
        /\ \A i \in DOMAIN last.returned :
              /\ \E c \in DOMAIN Candidates :
                    /\ Candidates[c].document_id = last.returned[i].document_id
                    /\ last.returned[i].similarity_score =
                           compute_similarity(Embed(last.query), Embed(Candidates[c].content))
              /\ \A c \in DOMAIN Candidates :
                    (\A k \in DOMAIN last.returned :
                        last.returned[k].document_id # Candidates[c].document_id) =>
                    ~SimLess(last.returned[i].similarity_score,
                             compute_similarity(Embed(last.query),
                                                Embed(Candidates[c].content)))
        /\ \A i, j \in DOMAIN last.returned :
              i < j =>
                \/ SimLess(last.returned[j].similarity_score,
                           last.returned[i].similarity_score)
                \/ /\ SimEqual(last.returned[i].similarity_score,
                               last.returned[j].similarity_score)
                   /\ ChunkIdRank(last.returned[i].document_id)
                          < ChunkIdRank(last.returned[j].document_id)

AddOps == {"add_document", "add_documents_batch", "update_document"}
SearchOps == {"search", "semantic_search_with_reranking"}

\* A step of delete_document in which the collection answers: the chunks of
\* doc_id, and only they, leave the store, and the call returns whether there
\* were any.
C13_DeleteStep ==
    (last'.op = "delete_document" /\ last'.fault = "none") =>
        LET mine == ChunksOf(store, last'.doc_id)
        IN /\ last'.returned = (mine # {})
           /\ store' = store \ mine
           /\ ChunksOf(store', last'.doc_id) = {}

\* Chunks of a document that has none come into the store by an ingest only.
C13_AbsentUntilIngested ==
    \A d \in DocIds :
        (ChunksOf(store, d) = {} /\ ChunksOf(store', d) # {}) =>
            /\ last'.op \in AddOps
            /\ last'.op # "add_documents_batch" => last'.doc_id = d

\* A search returns chunks that are in the store.
C13_SearchReturnsStored ==
    (last.op \in SearchOps /\ last.err = "none") =>
        \A i \in DOMAIN last.returned :
            \E r \in store : /\ r.id = last.returned[i].document_id
                             /\ r.metadata = last.returned[i].metadata

C14_FalseMeansAbsent ==
    (last.op = "delete_document" /\ ~last.returned) =>
        ChunksOf(store, last.doc_id) = {}

Updated == last.op = "update_document"

\* C15 (as claimed): whenever update_document returns normally, the chunks stored
\* for doc_id are exactly the chunks of new_content with new_metadata, those the
\* call handed to collection.add, and none of the earlier version is left.
C15_UpdateReplaces ==
    (Updated /\ last.err = "none") =>
        /\ last.between = {}
        /\ ChunksOf(store, last.doc_id) = Range(last.adds[1])

\* C16: when add_document fails in an update_document whose delete_document went
\* through, the failure is raised to the caller and the store holds no chunk of
\* doc_id: the old ones are not put back.  Between the two calls the document is
\* absent from the store.
C16_UpdateNotAtomic ==
    (Updated /\ last.delFault = "none") =>
        /\ last.between = {}
        /\ (last.fault # "none"
              \/ process_document(last.content, last.chunk_size).err # "none") =>
               /\ last.err # "none"
               /\ last.returned = <<>>
               /\ ChunksOf(store, last.doc_id) = {}

\* C16 witness: an update of a stored document whose ingest failed after the
\* delete removed the old chunks.
C16_Witness ==
    /\ Updated /\ last.deleted /\ last.fault # "none"
    /\ last.err # "none"
    /\ ChunksOf(store, last.doc_id) = {}

\* The records the last call put into the store: those with its timestamps.
StoredByLast == {r \in store : last.ts <= r.metadata.timestamp}

\* C17 (as claimed): add_documents_batch attempts every document of its list,
\* whatever fails on the way, and hands back the chunk ids of the documents that
\* went in.  An exception of add_document ends the call at once.
C17_BatchIsolation ==
    last.op = "add_documents_batch" =>
        /\ last.pos = Len(last.documents) + 1
        /\ \A r \in StoredByLast : r.id \in Range(last.returned)

\* C18 (as claimed): an ingest call makes one collection.add with all its chunks,
\* so the store holds either none or all of the records of that call, never some
\* of them.  collection.add is not an upsert: release 0.4 leaves out the records
\* whose id is already stored and inserts the others.
C18_NoneOrAll ==
    Ingested =>
        /\ Len(last.adds) <= 1
        /\ \A k \in DOMAIN last.adds :
              \/ Range(last.adds[k]) \cap store = {}
              \/ Range(last.adds[k]) \subseteq store

\* C19: an ingest call that gets past chunking calls the embedding model once,
\* with the whole chunk list, whatever the number of chunks; the record of the
\* k-th chunk carries the k-th embedding, the model's vector for that chunk.
C19_OneEncodeCall ==
    (Ingested /\ process_document(last.content, last.chunk_size).err = "none") =>
        LET chunks == process_document(last.content, last.chunk_size).chunks
        IN /\ last.encodes = <<chunks>>
           /\ \A a \in DOMAIN last.adds :
                 /\ Len(last.adds[a]) = Len(chunks)
                 /\ \A k \in DOMAIN chunks :
                       /\ last.adds[a][k].document = chunks[k]
                       /\ last.adds[a][k].embedding = Embed(chunks[k])
                       /\ last.adds[a][k].metadata.chunk_index = k - 1

\* C19 witness: an ingest that stored chunks with different embeddings.
C19_Witness ==
    /\ Ingested /\ last.err = "none"
    /\ Len(last.encodes) = 1 /\ Len(last.encodes[1]) >= 2
    /\ last.adds[1][1].embedding # last.adds[1][2].embedding
    /\ Range(last.adds[1]) \subseteq store

\* The stored records that qualify for the last search: they match its filter
\* and their similarity to the query reaches its min_similarity.
Qualifying ==
    LET where == IF last.op = "search" THEN WhereClause(last.filter_metadata) ELSE None
        min_similarity == IF last.op = "search" THEN last.min_similarity ELSE 0
    IN {r \in collection_get(store, where) :
           1 - Distance(Embed(last.query), r.embedding) >= min_similarity}

\* C20: a failure of the model or of the collection in search or in
\* semantic_search_with_reranking is raised to the caller; a call that returns
\* an empty list met no failure and the store had no qualifying record.
C20_SearchFailureSurfaced ==
    last.op \in SearchOps =>
        /\ last.fault \in {"embed", "store"} => last.err # "none"
        /\ (last.fault = "reembed" /\ Candidates # <<>>) => last.err # "none"
        /\ (last.err = "none" /\ last.returned = <<>>) => Qualifying = {}

\* C20 witness: a search over a store with a qualifying record met a failure of
\* the collection, and the caller got the failure.
C20_Witness ==
    /\ last.op \in SearchOps /\ last.fault = "store"
    /\ last.err # "none"
    /\ Qualifying # {}

\* A step of add_documents_batch that stopped at document j = pos - 1: `before`
\* are the records the documents before j handed to collection.add.
C21_Step ==
    (last'.op = "add_documents_batch" /\ last'.err # "none") =>
        LET j == last'.pos - 1
            n == Min(j - 1, Len(last'.adds))
            before == UNION {Range(last'.adds[k]) : k \in 1..n}
        IN /\ store \subseteq store'
           /\ store' \ store \subseteq before
           /\ \A k \in 1..n : \A r \in Range(last'.adds[k]) :
                 /\ r.id \in Ids(store')
                 /\ (/\ r.id \notin Ids(store)
                     /\ \A k2 \in 1..(k - 1) : r.id \notin Ids(Range(last'.adds[k2])))
                        => r \in store'

\* C21: when add_documents_batch stops at document j, what the store held before
\* the call and the chunks of the documents before j are in the store, nothing is
\* taken back, and nothing of document j or of a later document is stored.
C21_PartialProgressKept == [][C21_Step]_vars

\* C21 witness: a batch that stopped at its second document after storing the
\* chunks of the first.
C21_Witness ==
    /\ last.op = "add_documents_batch" /\ last.err # "none"
    /\ last.pos = 3
    /\ StoredByLast # {}

(***************************************************************************)
(* Properties of process_document on long texts, checked under SpecLong.   *)
(***************************************************************************)
\* The words of chunk j of the last call.
ChunkWords(j) == split(ret.chunks[j])

\* C22: add_document chunks by process_document, which hands no overlap on: for
\* every chunk_size above 50 the chunks start every chunk_size - 50 words, and of
\* two consecutive full chunks the second begins with the last 50 words of the first.
C22_DefaultOverlapStride ==
    (ret.fn = "process_document" /\ arg.chunk_size > DefaultOverlap) =>
        LET words == split(arg.text)
            stride == arg.chunk_size - DefaultOverlap
        IN /\ ret.err = "none"
           /\ Len(ret.chunks) = (Len(words) + stride - 1) \div stride
           /\ \A j \in DOMAIN ret.chunks :
                 ChunkWords(j) = SubSeq(words, (j - 1) * stride + 1,
                                        Min((j - 1) * stride + arg.chunk_size, Len(words)))
           /\ \A j \in DOMAIN ret.chunks :
                 (/\ j + 1 \in DOMAIN ret.chunks
                  /\ Len(ChunkWords(j)) = arg.chunk_size
                  /\ Len(ChunkWords(j + 1)) = arg.chunk_size) =>
                     /\ SubSeq(ChunkWords(j), stride + 1, arg.chunk_size)
                            = SubSeq(ChunkWords(j + 1), 1, DefaultOverlap)
                     /\ Range(ChunkWords(j)) \cap Range(ChunkWords(j + 1))
                            = Range(SubSeq(ChunkWords(j + 1), 1, DefaultOverlap))

\* C22 witness: a call with stride 2 whose first two chunks are full.
C22_Witness ==
    /\ ret.fn = "process_document" /\ arg.chunk_size = DefaultOverlap + 2
    /\ Len(ret.chunks) >= 3
    /\ Len(ChunkWords(2)) = arg.chunk_size

(***************************************************************************)
(* Further properties of the pipeline, checked under Spec.                 *)
(***************************************************************************)
LineageKeys == {"parent_doc_id", "chunk_index", "chunk_count", "timestamp"}
CallerMetadata == IF last.metadata = None THEN EmptyDict ELSE last.metadata

\* C23: the metadata of every chunk an ingest call writes has parent_doc_id,
\* chunk_index, chunk_count and timestamp as the call computed them, also when the
\* caller's metadata has keys of those names, and every other key of the caller's
\* metadata with the caller's value; a stored chunk's id agrees with its lineage.
C23_LineageKeysWin ==
    /\ Ingested =>
          \A a \in DOMAIN last.adds : \A k \in DOMAIN last.adds[a] :
              LET md == last.adds[a][k].metadata
              IN /\ DOMAIN md = LineageKeys \cup DOMAIN CallerMetadata
                 /\ md.parent_doc_id = last.doc_id
                 /\ md.chunk_index = k - 1
                 /\ md.chunk_count = Len(last.adds[a])
                 /\ md.timestamp = last.ts
                 /\ \A key \in DOMAIN CallerMetadata \ LineageKeys :
                       md[key] = CallerMetadata[key]
    /\ \A r \in store :
          /\ r.id = ChunkId(r.metadata.parent_doc_id, r.metadata.chunk_index)
          /\ r.metadata.parent_doc_id \in DocIds
          /\ r.metadata.timestamp < now

\* C23 witness: chunks stored by a call whose metadata names the lineage keys.
C23_Witness ==
    /\ Ingested /\ last.err = "none"
    /\ last.metadata = CollidingMetadata
    /\ \E r \in store : /\ r \in Range(last.adds[1])
                        /\ r.metadata.cat = "x"
                        /\ r.metadata.parent_doc_id = last.doc_id
                        /\ r.metadata.chunk_count # CollidingMetadata.chunk_count

\* A step of the pipeline leaves alone what is not its document's.
C24_Step ==
    /\ last'.op \in {"delete_document", "update_document"} =>
          \A d \in DocIds \ {last'.doc_id} : ChunksOf(store', d) = ChunksOf(store, d)
    /\ last'.op \in SearchOps => store' = store

\* C24: delete_document and update_document leave every stored chunk of another
\* parent_doc_id as it was (id, text, embedding, metadata), and search and
\* semantic_search_with_reranking leave the whole store as it was.
C24_OthersUntouched == [][C24_Step]_vars

\* C24 witness: an update of one document next to the stored chunks of another.
C24_Witness ==
    /\ Updated /\ last.err = "none"
    /\ ChunksOf(store, last.doc_id) # {}
    /\ \E r \in store : Parent(r) # last.doc_id

\* C25: semantic_search_with_reranking returns min(rerank_top_k, m) results, m
\* the number of results of its first search; each is one of those results with
\* its document_id, content and metadata, none comes twice, and with m = 0 the
\* answer is empty and the model is not called again after the first search.
C25_RerankSize ==
    Reranked =>
        /\ Len(last.returned) = Min(last.rerank_top_k, Len(Candidates))
        /\ \A i \in DOMAIN last.returned :
              \E c \in DOMAIN Candidates :
                  /\ Candidates[c].document_id = last.returned[i].document_id
                  /\ Candidates[c].content = last.returned[i].content
                  /\ Candidates[c].metadata = last.returned[i].metadata
        /\ \A i, j \in DOMAIN last.returned :
              last.returned[i].document_id = last.returned[j].document_id => i = j
        /\ Candidates = <<>> => (last.returned = <<>> /\ last.encodes = <<last.query>>)
        /\ Candidates # <<>> => Len(last.encodes) = 2 + Len(Candidates)

\* C25 witness: a reranking of two candidates cut to one result.
C25_Witness ==
    /\ Reranked
    /\ Len(Candidates) = 2
    /\ last.rerank_top_k = 1
    /\ Len(last.returned) = 1

(***************************************************************************)
(* Properties of get_prompt_parts, checked under SpecPrompt.               *)
(***************************************************************************)
\* C27 (as claimed): when a template is used, the context put in place of
\* {CONTEXT} has at most 4096 characters if the template has no {UPLOADFILE} and
\* at most 1024 if it has one; {UPLOADFILE} becomes the file's name if the file
\* exists, the not-found marker if it does not, the not-passed marker if no file
\* was given.  The cut to 1024 is made only in the branch where the file exists.
C27_ContextLimits ==
    (ret.fn = "get_prompt_parts" /\ arg.template # NoTemplate) =>
        /\ ~ret.has_uploadfile => Len(ret.context) <= ContextLimit
        /\ ret.has_uploadfile => Len(ret.context) <= ContextLimitWithFile
        /\ (ret.has_uploadfile /\ ~arg.uploadfile.given) =>
               ret.uploadfile_text = FileNotPassed
        /\ (ret.has_uploadfile /\ arg.uploadfile.given /\ ~arg.uploadfile.raises) =>
               ret.uploadfile_text = IF arg.uploadfile.exists
                                     THEN <<arg.uploadfile.name>>
                                     ELSE FileNotFound(arg.uploadfile.name)

(***************************************************************************)
(* Properties of load_from_urls_async, checked under SpecUrls.             *)
(***************************************************************************)
UrlsReturned == ret.fn = "load_from_urls_async" /\ ret.returned # NotReturned

\* The positions of the url list whose fetch gave content.
Kept == {i \in DOMAIN arg : ret.tasks[i].content # ""}
KeptAt(k) == CHOOSE i \in Kept : Cardinality({j \in Kept : j <= i}) = k

\* C28: load_from_urls_async raises nothing and returns one record for each url
\* whose fetch succeeded with content, in the order of the url list whatever the
\* order of completion; a failed or empty fetch takes out that url's record only.
C28_UrlOrderKept ==
    /\ ret.fn = "load_from_urls_async" => ret.err = "none"
    /\ UrlsReturned =>
          /\ Len(ret.returned) = Cardinality(Kept)
          /\ \A k \in DOMAIN ret.returned :
                /\ ret.returned[k] = ret.tasks[KeptAt(k)]
                /\ ret.returned[k].metadata.source_url = arg[KeptAt(k)]
                /\ ret.returned[k].metadata.status = "success"
                /\ ret.returned[k].id = Md5(arg[KeptAt(k)])

\* C28 witness: three fetches completed last to first, the middle one failed, and
\* the two others came back in the order of the url list.
C28_Witness ==
    /\ UrlsReturned
    /\ ret.order = <<3, 2, 1>>
    /\ arg[1] # arg[3]
    /\ ret.tasks[2].metadata.status = "error"
    /\ Len(ret.returned) = 2
    /\ ret.returned[1].metadata.source_url = arg[1]

====
